---- MODULE Spec2Model ----
(***************************************************************************)
(* Model of the object_detection.ai backend: the WebSocket frame loop of   *)
(* backend/main.py, the post-processing of backend/detector.py and the     *)
(* centroid tracker of backend/tracker.py.                                 *)
(*                                                                         *)
(* Units: times are milliseconds; a confidence is an integer number of     *)
(* 1/10000 (0.8004 is 8004); a similarity is an integer number of tenths   *)
(* of a percent (80.0 is 800), which is what round(conf * 100, 1) keeps;   *)
(* min_similarity, a number the client chooses, is an integer number of    *)
(* hundredths of a percent (70 is 7000, 50.02 is 5002).                    *)
(* Distances are compared by their squares: sqrt is monotone, so           *)
(* sqrt(a) < sqrt(b) is a < b and sqrt(a) < r is a < r * r for r >= 0.     *)
(***************************************************************************)
EXTENDS Integers, Sequences, FiniteSets, TLC

VARIABLES
    clock,            \* time.time() * 1000, read by update and by the response
    next_id,          \* tracker.next_id of the module-level tracker of main.py
    tracked_objects,  \* tracker.tracked_objects: id -> track record
    conn,             \* per client: "closed" or "open" (inside the receive loop)
    allocated,        \* per client: greatest id given to a new track since its accept
    last,             \* what the latest step of a handler did and sent
    probe             \* one frame's candidate rows and config, and what
                      \* detect_objects made of them

vars == <<clock, next_id, tracked_objects, conn, allocated, last, probe>>

(***************************************************************************)
(* Bounds of the model.                                                    *)
(***************************************************************************)
MaxTicks == 2         \* the clock advances at most this many times
MaxId == 2            \* a frame is processed only if it leaves next_id <= MaxId + 1
MaxMatchId == 3       \* the same cap where one client sends the matching frames
T0 == 100000          \* the clock at start (epoch milliseconds are far above any cooldown)

Sessions == {"A", "B"}
Points == {<<100, 100>>, <<118, 124>>, <<136, 148>>}   \* 30 px apart on a line
ClassIds == {41, 16}                                   \* "cup", "dog"
Confs == {5000, 8004}
Widths == {1280}

(***************************************************************************)
(* Program constants.                                                      *)
(***************************************************************************)
max_distance == 60            \* ObjectTracker.__init__ default
reference_width == 640        \* frame_w / 640.0
timeout_ms == 1000            \* update: timeout_ms = 1000
default_min_similarity == 70  \* update: config.get("min_similarity", 70)
default_cooldown_ms == 2000   \* update: config.get("speak_cooldown_ms", 2000)
detector_default_similarity == 30  \* detect_objects: config.get("min_similarity", 30)
detector_floor == 3000        \* detect_objects: max(0.30, ...)
nms_threshold_tenths == 4     \* NMSBoxes(..., 0.4)
default_downscale_width == 640 \* config.get("downscale_width", 640)
box_side == 20                \* side of the candidate boxes of the model
None == 0                     \* closest_id = None (ids are positive)

TickMs == timeout_ms          \* the clock advances in steps of one timeout

Max(a, b) == IF a >= b THEN a ELSE b
Min(a, b) == IF a <= b THEN a ELSE b

\* a min_similarity of n percent: the config carries min_similarity in hundredths
\* of a percent, so that 50.02 is 5002
Percent(n) == n * 100

\* dict.get(key, default)
Get(config, key, default) == IF key \in DOMAIN config THEN config[key] ELSE default

(***************************************************************************)
(* backend/detector.py                                                     *)
(***************************************************************************)
COCO_CLASSES(cid) == IF cid = 41 THEN "cup" ELSE IF cid = 16 THEN "dog" ELSE "unknown"

\* str.title() on the class names of the model
Title(name) == IF name = "cup" THEN "Cup" ELSE IF name = "dog" THEN "Dog" ELSE "Unknown"

\* round(conf * 100, 1), in tenths of a percent, from a confidence in 1/10000
\* (to the nearest tenth; the confidences of the model are never half way)
Round1(conf) == (conf + 5) \div 10

\* the threshold without the floor
min_confNoFloor(config) == Get(config, "min_similarity", Percent(detector_default_similarity))

\* min_conf = max(0.30, config.get("min_similarity", 30) / 100.0), in 1/10000
min_conf(config) ==
    Max(detector_floor, Get(config, "min_similarity", Percent(detector_default_similarity)))

\* mask = confs > min_conf; the rows that pass, in their order
RECURSIVE FilterConf(_, _)
FilterConf(raw, mc) ==
    IF raw = <<>> THEN <<>>
    ELSE IF Head(raw).confidence > mc THEN <<Head(raw)>> \o FilterConf(Tail(raw), mc)
    ELSE FilterConf(Tail(raw), mc)

Area(b) == b[3] * b[4]
InterArea(a, b) ==
    LET w == Min(a[1] + a[3], b[1] + b[3]) - Max(a[1], b[1])
        h == Min(a[2] + a[4], b[2] + b[4]) - Max(a[2], b[2])
    IN  IF w > 0 /\ h > 0 THEN w * h ELSE 0

\* overlap > 0.4 between two boxes: inter / union > 4 / 10
Overlaps(a, b) ==
    LET i == InterArea(a, b)
        u == Area(a) + Area(b) - i
    IN  u > 0 /\ i * 10 > nms_threshold_tenths * u

\* stable sort by confidence descending (insertion of x after every row of
\* confidence >= x.confidence)
RECURSIVE InsertDesc(_, _)
InsertDesc(x, s) ==
    IF s = <<>> THEN <<x>>
    ELSE IF Head(s).confidence >= x.confidence THEN <<Head(s)>> \o InsertDesc(x, Tail(s))
    ELSE <<x>> \o s

RECURSIVE SortDesc(_)
SortDesc(s) == IF s = <<>> THEN <<>> ELSE InsertDesc(s[Len(s)], SortDesc(SubSeq(s, 1, Len(s) - 1)))

\* cv2.dnn.NMSBoxes(boxes, scores, min_conf, 0.4): rows with score > min_conf, by
\* score descending, each kept unless it overlaps an already kept row by more
\* than the threshold
RECURSIVE Greedy(_, _)
Greedy(sorted, kept) ==
    IF sorted = <<>> THEN kept
    ELSE LET c == Head(sorted)
         IN  IF \E k \in 1..Len(kept) : Overlaps(kept[k].box, c.box)
             THEN Greedy(Tail(sorted), kept)
             ELSE Greedy(Tail(sorted), Append(kept, c))

NMSBoxes(rows, score_threshold) == Greedy(SortDesc(FilterConf(rows, score_threshold)), <<>>)

\* one detection dictionary (the fields the tracker and the response read)
Detection(row) ==
    [centroid   |-> <<row.box[1] + (row.box[3] \div 2), row.box[2] + (row.box[4] \div 2)>>,
     label      |-> Title(COCO_CLASSES(row.cid)),
     similarity |-> Round1(row.confidence),
     confidence |-> row.confidence,
     bbox       |-> row.box]

RECURSIVE MapDetection(_)
MapDetection(rows) ==
    IF rows = <<>> THEN <<>> ELSE <<Detection(Head(rows))>> \o MapDetection(Tail(rows))

\* the detections returned in ascending order of confidence
detect_objectsAscending(raw, config) ==
    LET mc == min_conf(config)
        out == SortDesc(MapDetection(NMSBoxes(FilterConf(raw, mc), mc)))
    IN  [k \in 1..Len(out) |-> out[Len(out) + 1 - k]]

\* detect_objects(frame, config) on the candidate rows the network returned
detect_objects(raw, config) ==
    LET mc == min_conf(config)
    IN  SortDesc(MapDetection(NMSBoxes(FilterConf(raw, mc), mc)))

(***************************************************************************)
(* backend/tracker.py                                                      *)
(***************************************************************************)
\* (p1[0] - p2[0])**2 + (p1[1] - p2[1])**2, the square of _calculate_distance
calculate_distance_sq(p1, p2) ==
    (p1[1] - p2[1]) * (p1[1] - p2[1]) + (p1[2] - p2[2]) * (p1[2] - p2[2])

\* the radius test with the radius itself included
WithinRadiusInclusive(distance_sq, frame_w) ==
    distance_sq * (reference_width * reference_width)
        <= (max_distance * frame_w) * (max_distance * frame_w)

\* distance < scaled_max_dist, with scaled_max_dist = max_distance * (frame_w / 640.0)
WithinRadius(distance_sq, frame_w) ==
    distance_sq * (reference_width * reference_width)
        < (max_distance * frame_w) * (max_distance * frame_w)

\* a scan that takes any track inside the radius, nearer or not
CloserAnyInside(distance_sq, min_distance_sq, frame_w) ==
    WithinRadius(distance_sq, frame_w)

\* a scan that lets a later track at the same distance replace the chosen one
CloserOrEqual(distance_sq, min_distance_sq, frame_w) ==
    /\ (min_distance_sq = -1 \/ distance_sq <= min_distance_sq)
    /\ WithinRadius(distance_sq, frame_w)

\* distance < min_distance and distance < scaled_max_dist; min_distance_sq = -1 is inf
Closer(distance_sq, min_distance_sq, frame_w) ==
    /\ (min_distance_sq = -1 \/ distance_sq < min_distance_sq)
    /\ WithinRadius(distance_sq, frame_w)

\* the keys of tracked_objects in iteration order: a dict iterates in insertion
\* order, and ids are inserted in increasing order
RECURSIVE Ascending(_)
Ascending(ids) ==
    IF ids = {} THEN <<>>
    ELSE LET m == CHOOSE i \in ids : \A j \in ids : i <= j
         IN  <<m>> \o Ascending(ids \ {m})

\* the tracks _find_closest_match scans: every tracked object
Scanned(objs, matched_ids) == Ascending(DOMAIN objs)

RECURSIVE ScanClosest(_, _, _, _, _, _)
ScanClosest(objs, order, centroid, frame_w, closest_id, min_distance_sq) ==
    IF order = <<>> THEN closest_id
    ELSE LET obj_id == Head(order)
             distance_sq == calculate_distance_sq(centroid, objs[obj_id].centroid)
         IN  IF Closer(distance_sq, min_distance_sq, frame_w)
             THEN ScanClosest(objs, Tail(order), centroid, frame_w, obj_id, distance_sq)
             ELSE ScanClosest(objs, Tail(order), centroid, frame_w, closest_id, min_distance_sq)

find_closest_match(objs, matched_ids, centroid, frame_w) ==
    ScanClosest(objs, Scanned(objs, matched_ids), centroid, frame_w, None, -1)

\* similarity >= min_similarity (the similarity is in tenths of a percent, the
\* threshold in hundredths)
AtThreshold(similarity, min_similarity) == similarity * 10 >= min_similarity

\* the decision with the cooldown compared strictly
SpeakMatchedStrict(similarity, label, old_label, time_since_spoken, min_similarity, speak_cooldown_ms) ==
    /\ AtThreshold(similarity, min_similarity)
    /\ (label # old_label \/ time_since_spoken > speak_cooldown_ms)

\* the decision without the label test
SpeakMatchedNoLabel(similarity, label, old_label, time_since_spoken, min_similarity, speak_cooldown_ms) ==
    /\ AtThreshold(similarity, min_similarity)
    /\ time_since_spoken >= speak_cooldown_ms

\* the decision for a matched track, lines 106-115
SpeakMatched(similarity, label, old_label, time_since_spoken, min_similarity, speak_cooldown_ms) ==
    /\ AtThreshold(similarity, min_similarity)
    /\ (label # old_label \/ time_since_spoken >= speak_cooldown_ms)

\* the decision for a new track, line 134
SpeakNew(similarity, min_similarity) == AtThreshold(similarity, min_similarity)

\* last_spoken_ms written with the other fields of the match
SpokenAlways(should_speak, last_spoken_ms, current_time_ms) == current_time_ms

\* last_spoken_ms of a matched track after lines 117-125
SpokenAfterMatch(should_speak, last_spoken_ms, current_time_ms) ==
    IF should_speak THEN current_time_ms ELSE last_spoken_ms

\* a new track stamped as spoken whether it spoke or not
SpokenOfNewAlways(should_speak, current_time_ms) == current_time_ms

\* last_spoken_ms of a new track, line 140
SpokenOfNew(should_speak, current_time_ms) == IF should_speak THEN current_time_ms ELSE 0

\* one pass of the loop of lines 89-154 over st = the tracker and the locals
\* matched_ids and updated_detections
UpdateOne(st, detection, frame_w, min_similarity, speak_cooldown_ms, current_time_ms) ==
    LET matched_id == find_closest_match(st.tracked_objects, st.matched_ids,
                                         detection.centroid, frame_w)
    IN  IF matched_id # None
        THEN LET old_data == st.tracked_objects[matched_id]
                 should_speak == SpeakMatched(detection.similarity, detection.label,
                                              old_data.last_label,
                                              current_time_ms - old_data.last_spoken_ms,
                                              min_similarity, speak_cooldown_ms)
                 spoken == SpokenAfterMatch(should_speak, old_data.last_spoken_ms,
                                            current_time_ms)
             IN  [next_id |-> st.next_id,
                  tracked_objects |->
                      [st.tracked_objects EXCEPT ![matched_id] =
                          [centroid |-> detection.centroid,
                           last_seen_ms |-> current_time_ms,
                           last_spoken_ms |-> spoken,
                           last_label |-> detection.label]],
                  matched_ids |-> st.matched_ids \cup {matched_id},
                  updated_detections |-> Append(st.updated_detections,
                      [id |-> matched_id, should_speak |-> should_speak, new |-> FALSE,
                       centroid |-> detection.centroid, label |-> detection.label,
                       similarity |-> detection.similarity,
                       confidence |-> detection.confidence,
                       bbox |-> detection.bbox,
                       old_label |-> old_data.last_label,
                       old_centroid |-> old_data.centroid,
                       last_spoken_ms |-> old_data.last_spoken_ms,
                       spoken_after |-> spoken])]
        ELSE LET obj_id == st.next_id
                 should_speak == SpeakNew(detection.similarity, min_similarity)
                 spoken == SpokenOfNew(should_speak, current_time_ms)
             IN  [next_id |-> st.next_id + 1,
                  tracked_objects |->
                      [i \in DOMAIN st.tracked_objects \cup {obj_id} |->
                          IF i = obj_id
                          THEN [centroid |-> detection.centroid,
                                last_seen_ms |-> current_time_ms,
                                last_spoken_ms |-> spoken,
                                last_label |-> detection.label]
                          ELSE st.tracked_objects[i]],
                  matched_ids |-> st.matched_ids \cup {obj_id},
                  updated_detections |-> Append(st.updated_detections,
                      [id |-> obj_id, should_speak |-> should_speak, new |-> TRUE,
                       centroid |-> detection.centroid, label |-> detection.label,
                       similarity |-> detection.similarity,
                       confidence |-> detection.confidence,
                       bbox |-> detection.bbox,
                       old_label |-> detection.label,
                       old_centroid |-> detection.centroid,
                       last_spoken_ms |-> 0,
                       spoken_after |-> spoken])]

RECURSIVE UpdateLoop(_, _, _, _, _, _)
UpdateLoop(st, detections, frame_w, min_similarity, speak_cooldown_ms, current_time_ms) ==
    IF detections = <<>> THEN st
    ELSE UpdateLoop(UpdateOne(st, Head(detections), frame_w, min_similarity,
                              speak_cooldown_ms, current_time_ms),
                    Tail(detections), frame_w, min_similarity, speak_cooldown_ms,
                    current_time_ms)

\* the test with the timeout compared non-strictly
ExpiredAtTimeout(obj_id, obj_data, matched_ids, current_time_ms) ==
    /\ obj_id \notin matched_ids
    /\ current_time_ms - obj_data.last_seen_ms >= timeout_ms

\* lines 160-164: the test that puts obj_id in ids_to_remove
Expired(obj_id, obj_data, matched_ids, current_time_ms) ==
    /\ obj_id \notin matched_ids
    /\ current_time_ms - obj_data.last_seen_ms > timeout_ms

\* lines 158-164: ids_to_remove
IdsToRemove(objs, matched_ids, current_time_ms) ==
    {i \in DOMAIN objs : Expired(i, objs[i], matched_ids, current_time_ms)}

\* a removal that also refreshes last_seen_ms of the tracks it leaves
RemoveExpiredRefreshing(objs, ids_to_remove) ==
    [i \in DOMAIN objs \ ids_to_remove |-> [objs[i] EXCEPT !.last_seen_ms = @ + 1]]

\* lines 166-167: del self.tracked_objects[obj_id] for each of them
RemoveExpired(objs, ids_to_remove) == [i \in DOMAIN objs \ ids_to_remove |-> objs[i]]

\* ObjectTracker.update on the tracker trk = [next_id, tracked_objects]
update(trk, detections, frame_w, config, current_time_ms) ==
    LET min_similarity == Get(config, "min_similarity", Percent(default_min_similarity))
        speak_cooldown_ms == Get(config, "speak_cooldown_ms", default_cooldown_ms)
        st == UpdateLoop([next_id |-> trk.next_id, tracked_objects |-> trk.tracked_objects,
                          matched_ids |-> {}, updated_detections |-> <<>>],
                         detections, frame_w, min_similarity, speak_cooldown_ms,
                         current_time_ms)
        ids_to_remove == IdsToRemove(st.tracked_objects, st.matched_ids, current_time_ms)
    IN  [next_id |-> st.next_id,
         tracked_objects |-> RemoveExpired(st.tracked_objects, ids_to_remove),
         matched_ids |-> st.matched_ids,
         ids_to_remove |-> ids_to_remove,
         updated_detections |-> st.updated_detections,
         min_similarity |-> min_similarity,
         speak_cooldown_ms |-> speak_cooldown_ms]

\* a reset that clears the tracks and keeps the counter
resetKeepsCounter(trk) == [next_id |-> trk.next_id, tracked_objects |-> <<>>]

\* ObjectTracker.reset
reset(trk) == [next_id |-> 1, tracked_objects |-> <<>>]

(***************************************************************************)
(* backend/main.py                                                         *)
(***************************************************************************)
\* downscale_frame: the width of the frame after it
downscale_frame(w, target_width) == IF w <= target_width THEN w ELSE target_width

\* what one pass of the receive loop leaves: the tracker, whether the loop goes
\* on, and what was sent
Outcome(trk, open, kind, error, now) ==
    [next_id |-> trk.next_id, tracked_objects |-> trk.tracked_objects,
     open |-> open, kind |-> kind, error |-> error, now |-> now,
     frame_w |-> 0, min_similarity |-> 0, speak_cooldown_ms |-> 0,
     matched_ids |-> {}, ids_to_remove |-> {}, detections |-> <<>>]

\* an exception outside the inner try: caught at lines 173-176, the handler returns
Raised(trk, now) == Outcome(trk, FALSE, "raised", "", now)

\* an error path that also resets the tracker
ProcessingErrorResets(trk, now) ==
    Outcome([next_id |-> 1, tracked_objects |-> <<>>], TRUE, "error", "Processing error", now)

\* the inner except of lines 167-171: an error is sent and the loop goes on
ProcessingError(trk, now) == Outcome(trk, TRUE, "error", "Processing error", now)

\* lines 135-165: detect, update, respond
Process(trk, message, config, now) ==
    LET frame_w == downscale_frame(message.width,
                                   Get(config, "downscale_width", default_downscale_width))
        detections == detect_objects(message.raw, config)
        r == update(trk, detections, frame_w, config, now)
    IN  [next_id |-> r.next_id, tracked_objects |-> r.tracked_objects,
         open |-> TRUE, kind |-> "detections", error |-> "", now |-> now,
         frame_w |-> frame_w, min_similarity |-> r.min_similarity,
         speak_cooldown_ms |-> r.speak_cooldown_ms,
         matched_ids |-> r.matched_ids, ids_to_remove |-> r.ids_to_remove,
         detections |-> r.updated_detections]

\* lines 119-171: the inner try
TryFrame(trk, message, config, now) ==
    IF message.jpeg_b64 = "not_base64" THEN ProcessingError(trk, now)
    ELSE IF message.jpeg_b64 = "not_jpeg"
    THEN Outcome(trk, TRUE, "error", "Failed to decode JPEG", now)
    ELSE IF message.infer = "raise" THEN ProcessingError(trk, now)
    ELSE Process(trk, message, config, now)

\* lines 102-171: one pass of the receive loop on one text message
ReceiveOne(trk, message, now) ==
    IF message.json = "malformed" THEN Raised(trk, now)
    ELSE IF message.json # "object" THEN Raised(trk, now)
    ELSE IF message.config_type # "object" THEN Raised(trk, now)
    ELSE IF message.jpeg_b64 = ""
    THEN Outcome(trk, TRUE, "error", "No jpeg_b64 provided", now)
    ELSE TryFrame(trk, message, message.config, now)

(***************************************************************************)
(* The messages a client sends.                                            *)
(***************************************************************************)
Box(p) == <<p[1] - (box_side \div 2), p[2] - (box_side \div 2), box_side, box_side>>

\* candidate rows of the network: a box around p, a confidence, a class id
RowsOf(points, confs, cids) ==
    {[box |-> Box(p), confidence |-> c, cid |-> k] : p \in points, c \in confs, k \in cids}

\* the candidate lists of zero, one or two rows
ListsOf(first, second) ==
    {<<>>} \cup {<<a>> : a \in first} \cup {<<a, b>> : a \in first, b \in second}

Message(json, config_type, config, jpeg_b64, infer, width, raw) ==
    [json |-> json, config_type |-> config_type, config |-> config,
     jpeg_b64 |-> jpeg_b64, infer |-> infer, width |-> width, raw |-> raw]

\* config after line 111 (single_object_mode set when absent)
NoConfig == [single_object_mode |-> TRUE]
NarrowConfig == [single_object_mode |-> TRUE, downscale_width |-> 320]
StrictConfig == [single_object_mode |-> TRUE, min_similarity |-> Percent(80), speak_cooldown_ms |-> 1000]

FramesOf(configs, lists) ==
    {Message("object", "object", c, "jpeg", "ok", w, raw) :
        c \in configs, w \in Widths, raw \in lists}

BadMessages ==
    {Message("malformed", "object", NoConfig, "", "ok", 0, <<>>),
     Message("array", "object", NoConfig, "", "ok", 0, <<>>),
     Message("object", "other", NoConfig, "jpeg", "ok", 0, <<>>),
     Message("object", "object", NoConfig, "", "ok", 0, <<>>),
     Message("object", "object", NoConfig, "not_base64", "ok", 0, <<>>),
     Message("object", "object", NoConfig, "not_jpeg", "ok", 0, <<>>),
     Message("object", "object", NoConfig, "jpeg", "raise", 1280, <<>>)}

Cups == RowsOf(Points, {8004}, {41})

\* two clients: every kind of bad message, and frames of confident cups
PlainMessages == BadMessages \cup FramesOf({NoConfig}, ListsOf(Cups, Cups))

\* a cup 12 px from the second point and farther from the others
MovedCup == RowsOf({<<118, 112>>}, {8004}, {41})

\* the cups at the first two points, a narrow frame's radius apart
NearCups == RowsOf({<<100, 100>>, <<118, 124>>}, {8004}, {41})

\* matching: confident cups at every point, or the moved cup alone, at full
\* width, and the cups at the first two points at width 320
MatchMessages ==
    FramesOf({NoConfig}, ListsOf(Cups, Cups) \cup ListsOf(MovedCup, {}))
        \cup FramesOf({NarrowConfig}, ListsOf(NearCups, NearCups))

\* speaking: a candidate of either class and confidence at one of two points a
\* full radius apart, alone or with a confident dog half way between them,
\* under both thresholds and cooldowns
SpeakMessages ==
    FramesOf({NoConfig, StrictConfig},
             ListsOf(RowsOf({<<100, 100>>, <<136, 148>>}, Confs, ClassIds),
                     RowsOf({<<118, 124>>}, {8004}, {16})))

\* candidate boxes 70 wide and 10 high: in the row y = 0, at x = 0, 20, 30, 40, the
\* intersection over union is 4/10 for 0 and 30, 5/9 for 0 and 20 and for 20 and
\* 40, 3/11 for 0 and 40, 3/4 for 20 and 30 and for 30 and 40; the box at y = 30
\* meets none of them
WideBox(p) == <<p[1], p[2], 70, 10>>

Corners == {<<0, 0>>, <<20, 0>>, <<30, 0>>, <<40, 0>>, <<0, 30>>}

WideRows == {[box |-> WideBox(p), confidence |-> c, cid |-> 41] :
                p \in Corners, c \in {2500, 3000, 5000, 5003, 6500, 8004}}

\* the candidate lists of at most three rows
DetectLists ==
    ListsOf(WideRows, WideRows) \cup {<<a, b, c>> : a \in WideRows, b \in WideRows, c \in WideRows}

\* no min_similarity, and min_similarity below, at and above the floor: 20, 30,
\* 31, 50 and 50.02
DetectConfigs ==
    {NoConfig} \cup {[single_object_mode |-> TRUE, min_similarity |-> m] :
                        m \in {Percent(20), Percent(30), Percent(31), Percent(50), 5002}}

(***************************************************************************)
(* The state machine.                                                      *)
(***************************************************************************)
Tracker == [next_id |-> next_id, tracked_objects |-> tracked_objects]

\* last: the client that stepped, the message it sent (json, config_type,
\* jpeg_b64, infer) and the outcome of the pass
Idle == [session |-> "", json |-> "", config_type |-> "", jpeg_b64 |-> "", infer |-> "",
         open |-> FALSE, kind |-> "start", error |-> "", now |-> 0,
         frame_w |-> 0, min_similarity |-> 0, speak_cooldown_ms |-> 0,
         matched_ids |-> {}, ids_to_remove |-> {}, detections |-> <<>>]

\* probe: nothing is being followed through detect_objects
NoProbe == [phase |-> "none", config |-> NoConfig, raw |-> <<>>, min_conf |-> 0,
            filtered |-> <<>>, kept |-> <<>>, out |-> <<>>]

Init ==
    /\ clock = T0
    /\ next_id = 1
    /\ tracked_objects = <<>>
    /\ conn = [s \in Sessions |-> "closed"]
    /\ allocated = [s \in Sessions |-> 0]
    /\ last = Idle
    /\ probe = NoProbe

\* the ids of the tracks an outcome created
NewIds(detections) == {detections[k].id : k \in {j \in 1..Len(detections) : detections[j].new}}

MaxOf(S, d) == IF S = {} THEN d ELSE CHOOSE i \in S : \A j \in S : j <= i

\* lines 93-97: accept, then tracker.reset() on the module-level tracker
Accept(s) ==
    /\ conn[s] = "closed"
    /\ conn' = [conn EXCEPT ![s] = "open"]
    /\ next_id' = reset(Tracker).next_id
    /\ tracked_objects' = reset(Tracker).tracked_objects
    /\ allocated' = [allocated EXCEPT ![s] = 0]
    /\ last' = [Idle EXCEPT !.session = s, !.open = TRUE, !.kind = "accept", !.now = clock]
    /\ UNCHANGED clock

\* one pass of the receive loop of client s: from receive_text to the send
Receive(s, messages, max_id) ==
    /\ conn[s] = "open"
    /\ \E message \in messages :
        \E r \in {ReceiveOne(Tracker, message, clock)} :
               /\ r.next_id <= max_id + 1
               /\ next_id' = r.next_id
               /\ tracked_objects' = r.tracked_objects
               /\ conn' = [conn EXCEPT ![s] = IF r.open THEN "open" ELSE "closed"]
               /\ allocated' = [allocated EXCEPT
                                   ![s] = MaxOf(NewIds(r.detections) \cup {allocated[s]}, 0)]
               /\ last' = [session |-> s, json |-> message.json,
                           config_type |-> message.config_type,
                           jpeg_b64 |-> message.jpeg_b64, infer |-> message.infer,
                           open |-> r.open, kind |-> r.kind,
                           error |-> r.error, now |-> r.now, frame_w |-> r.frame_w,
                           min_similarity |-> r.min_similarity,
                           speak_cooldown_ms |-> r.speak_cooldown_ms,
                           matched_ids |-> r.matched_ids,
                           ids_to_remove |-> r.ids_to_remove,
                           detections |-> r.detections]
    /\ UNCHANGED clock

\* the client closes: receive_text raises WebSocketDisconnect, line 173
Disconnect(s) ==
    /\ conn[s] = "open"
    /\ conn' = [conn EXCEPT ![s] = "closed"]
    /\ last' = [Idle EXCEPT !.session = s, !.kind = "disconnect", !.now = clock]
    /\ UNCHANGED <<clock, next_id, tracked_objects, allocated>>

\* time passes
Tick ==
    /\ clock < T0 + MaxTicks * TickMs
    /\ clock' = clock + TickMs
    /\ UNCHANGED <<next_id, tracked_objects, conn, allocated, last>>

\* two clients on the one server process
Next ==
    /\ \/ \E s \in Sessions : Accept(s)
       \/ \E s \in Sessions : Receive(s, PlainMessages, MaxId)
       \/ \E s \in Sessions : Disconnect(s)
       \/ Tick
    /\ UNCHANGED probe

Spec == Init /\ [][Next]_vars

\* one client whose frames exercise the matching
NextMatch ==
    /\ \/ Accept("A")
       \/ Receive("A", MatchMessages, MaxMatchId)
       \/ Disconnect("A")
       \/ Tick
    /\ UNCHANGED probe

MatchSpec == Init /\ [][NextMatch]_vars

\* one client whose frames exercise the speak decision
NextSpeak ==
    /\ \/ Accept("A")
       \/ Receive("A", SpeakMessages, MaxId)
       \/ Disconnect("A")
       \/ Tick
    /\ UNCHANGED probe

SpeakSpec == Init /\ [][NextSpeak]_vars

\* detect_objects on its own: the candidate rows and the config of one frame are
\* drawn at the start, Detect applies the steps of detect_objects to them, and
\* Send is the pass of the receive loop on the frame that carries them
InitDetect ==
    /\ clock = T0
    /\ next_id = 1
    /\ tracked_objects = <<>>
    /\ conn = [s \in Sessions |-> IF s = "A" THEN "open" ELSE "closed"]
    /\ allocated = [s \in Sessions |-> 0]
    /\ last = [Idle EXCEPT !.session = "A", !.open = TRUE, !.kind = "accept", !.now = T0]
    /\ \E config \in DetectConfigs, raw \in DetectLists :
           probe = [NoProbe EXCEPT !.phase = "input", !.config = config, !.raw = raw]

\* detector.py lines 54-116, step by step
Detect ==
    /\ probe.phase = "input"
    /\ probe' = [probe EXCEPT
                    !.phase = "detected",
                    !.min_conf = min_conf(probe.config),
                    !.filtered = FilterConf(probe.raw, min_conf(probe.config)),
                    !.kept = NMSBoxes(FilterConf(probe.raw, min_conf(probe.config)),
                                      min_conf(probe.config)),
                    !.out = detect_objects(probe.raw, probe.config)]
    /\ UNCHANGED <<clock, next_id, tracked_objects, conn, allocated, last>>

\* main.py lines 102-165 on the frame of the probe
Send ==
    /\ probe.phase = "detected"
    /\ Receive("A", FramesOf({probe.config}, {probe.raw}), MaxMatchId)
    /\ probe' = [probe EXCEPT !.phase = "sent"]

NextDetect == Detect \/ Send

DetectSpec == InitDetect /\ [][NextDetect]_vars

(***************************************************************************)
(* Properties.                                                             *)
(***************************************************************************)
\* the step is a pass of the receive loop that reached tracker.update
UpdateStep == clock' = clock /\ last'.kind = "detections"

\* the state is the one an update call left (the clock may have advanced since)
AfterUpdate == last.kind = "detections"

Entries == {last.detections[k] : k \in 1..Len(last.detections)}

\* C1: within one update call no two detections are given the same id.
C1_OneToOne ==
    AfterUpdate =>
        \A j, k \in 1..Len(last.detections) :
            j # k => last.detections[j].id # last.detections[k].id

\* C2: a step of another client never changes the tracks or the next id that
\* serve a connected client.
C2_SessionIsolation ==
    [][\A a \in Sessions :
          (conn[a] = "open" /\ last'.session # a)
              => UNCHANGED <<next_id, tracked_objects>>]_vars

\* C3: every id an update allocates for a client is greater than every id
\* allocated earlier in that client's session, and every tracked id is
\* positive and below next_id.
C3_IdsNeverReused ==
    [][/\ UpdateStep =>
            \A i \in NewIds(last'.detections) : i > allocated[last'.session]
       /\ \A i \in DOMAIN tracked_objects' : 0 < i /\ i < next_id']_vars

\* C4: a detection at the location of a track that has had no match for more
\* than 1000 ms is not given that track's id.
C4_StaleTrackNotMatched ==
    [][UpdateStep =>
          \A i \in DOMAIN tracked_objects :
              clock - tracked_objects[i].last_seen_ms > timeout_ms =>
                  \A k \in 1..Len(last'.detections) :
                      last'.detections[k].centroid = tracked_objects[i].centroid
                          => last'.detections[k].id # i]_vars

\* C5: when update returns, a track it did not match is gone if it was last
\* seen more than 1000 ms ago and is still there if it was seen 1000 ms ago or
\* less; also when the frame has no detection.
C5_Expiry ==
    [][UpdateStep =>
          \A i \in DOMAIN tracked_objects :
              i \notin last'.matched_ids =>
                  (i \in DOMAIN tracked_objects'
                      <=> clock - tracked_objects[i].last_seen_ms <= timeout_ms)]_vars

\* an empty frame removed a track seen 2000 ms ago and left one seen exactly
\* 1000 ms ago
C5_Witness ==
    /\ AfterUpdate
    /\ last.detections = <<>>
    /\ last.ids_to_remove # {}
    /\ \E i \in DOMAIN tracked_objects :
          last.now - tracked_objects[i].last_seen_ms = timeout_ms

\* C6: at or above min_similarity, a detection that creates a track speaks,
\* and one that matches a track with the same label speaks exactly when
\* now - last_spoken_ms >= speak_cooldown_ms.
C6_Debounce ==
    AfterUpdate =>
        \A e \in Entries :
            e.similarity * 10 >= last.min_similarity =>
                /\ e.new => e.should_speak
                /\ (~e.new /\ e.label = e.old_label) =>
                      (e.should_speak
                          <=> last.now - e.last_spoken_ms >= last.speak_cooldown_ms)

\* a track that spoke before speaks again when exactly the cooldown has passed
C6_Witness ==
    /\ AfterUpdate
    /\ \E e \in Entries :
          /\ ~e.new /\ e.label = e.old_label /\ e.should_speak
          /\ e.last_spoken_ms > 0
          /\ last.now - e.last_spoken_ms = last.speak_cooldown_ms

\* C7 as stated: a matched detection whose label differs from the track's
\* speaks, whatever its similarity.
C7_LabelChangeAlwaysSpeaks ==
    AfterUpdate =>
        \A e \in Entries : (~e.new /\ e.label # e.old_label) => e.should_speak

\* C7 amended: a matched detection whose label differs from the track's and
\* whose similarity is at least min_similarity speaks, also inside the cooldown.
C7_LabelChangeSpeaksAtThreshold ==
    AfterUpdate =>
        \A e \in Entries :
            (~e.new /\ e.label # e.old_label
                /\ e.similarity * 10 >= last.min_similarity) => e.should_speak

\* a label change spoke inside the cooldown of a track that had spoken
C7_Witness ==
    /\ AfterUpdate
    /\ \E e \in Entries :
          /\ ~e.new /\ e.label # e.old_label /\ e.should_speak
          /\ e.last_spoken_ms > 0
          /\ last.now - e.last_spoken_ms < last.speak_cooldown_ms

\* the entries of the call that carry id i, in order
RECURSIVE LastEntryOf(_, _)
LastEntryOf(detections, i) ==
    IF detections[Len(detections)].id = i THEN detections[Len(detections)]
    ELSE LastEntryOf(SubSeq(detections, 1, Len(detections) - 1), i)

\* C8: below min_similarity a detection never speaks, new or matched; the
\* track's last_spoken_ms becomes the current time when the detection speaks
\* and keeps its value (0 for a new track) when it does not.
C8_SpokenTime ==
    AfterUpdate =>
        /\ \A e \in Entries :
              /\ e.similarity * 10 < last.min_similarity => ~e.should_speak
              /\ e.spoken_after = IF e.should_speak THEN last.now ELSE e.last_spoken_ms
        /\ \A i \in last.matched_ids :
              /\ i \in DOMAIN tracked_objects
              /\ tracked_objects[i].last_spoken_ms
                     = LastEntryOf(last.detections, i).spoken_after

\* a detection below the threshold matched a track that had spoken, with
\* another label, and the track kept its last_spoken_ms
C8_Witness ==
    /\ AfterUpdate
    /\ \E e \in Entries :
          /\ ~e.new /\ e.similarity * 10 < last.min_similarity
          /\ e.label # e.old_label
          /\ e.last_spoken_ms > 0 /\ e.last_spoken_ms < last.now
          /\ tracked_objects[e.id].last_spoken_ms = e.last_spoken_ms

\* C9: every message is answered (an error or the detections) and the receive
\* loop goes on.
C9_EveryMessageAnswered ==
    last.kind \notin {"start", "accept", "disconnect"} =>
        (last.open /\ last.kind \in {"error", "detections"})

\* the message of the step made decoding or the detector fail
FailedFrame ==
    /\ clock' = clock
    /\ last'.json = "object" /\ last'.config_type = "object"
    /\ \/ last'.jpeg_b64 \in {"not_base64", "not_jpeg"}
       \/ (last'.jpeg_b64 = "jpeg" /\ last'.infer = "raise")

\* C10: when decoding or the detector fails, the tracker is left as it was,
\* an error is sent and the client stays in the receive loop.
C10_FailureLeavesTracker ==
    [][FailedFrame =>
          /\ UNCHANGED <<next_id, tracked_objects>>
          /\ last'.kind = "error"
          /\ conn'[last'.session] = "open"]_vars

\* a detector failure was answered while tracks were present
C10_Witness ==
    /\ last.kind = "error" /\ last.infer = "raise" /\ last.jpeg_b64 = "jpeg"
    /\ conn[last.session] = "open"
    /\ DOMAIN tracked_objects # {}
    /\ next_id > 1

\* the step is an accept, which runs tracker.reset()
ResetStep == \E s \in Sessions : conn[s] = "closed" /\ conn'[s] = "open"

\* C11: the tracker is not reset while a client that has been given an id
\* stays in its receive loop.
C11_NoResetMidStream ==
    [][\A a \in Sessions :
          (conn[a] = "open" /\ allocated[a] > 0 /\ conn'[a] = "open") => ~ResetStep]_vars

\* C12: reset leaves no track and next_id = 1; in the next update call the
\* first detection creates track 1 and every matched detection matches a track
\* created in that call.
C12_ResetRestarts ==
    [][/\ ResetStep => (next_id' = 1 /\ DOMAIN tracked_objects' = {})
       /\ (last.kind = "accept" /\ UpdateStep) =>
             /\ last'.detections # <<>> =>
                   (last'.detections[1].id = 1 /\ last'.detections[1].new)
             /\ \A k \in 1..Len(last'.detections) :
                   last'.detections[k].id \in NewIds(last'.detections)]_vars

\* client A was accepted after client B had been given ids 1 and 2, and A's
\* first detection is track 1 again
C12_Witness ==
    /\ AfterUpdate /\ last.session = "A"
    /\ last.detections # <<>> /\ last.detections[1].id = 1 /\ last.detections[1].new
    /\ allocated["A"] = 1 /\ allocated["B"] = 2 /\ next_id = 2

\* the centroid stored for every track at the moment detection k of the call
\* is processed: the track's centroid before the call, or the centroid of the
\* latest earlier detection of the call that was given the track's id
CentroidsBefore(objs, entries, k) ==
    [id \in DOMAIN objs \cup {entries[j].id : j \in 1..(k - 1)} |->
        IF \E j \in 1..(k - 1) : entries[j].id = id
        THEN LET j == CHOOSE i \in 1..(k - 1) :
                          /\ entries[i].id = id
                          /\ \A h \in (i + 1)..(k - 1) : entries[h].id # id
             IN  entries[j].centroid
        ELSE objs[id].centroid]

\* the distance is strictly less than 60 * frame_w / 640
InsideScaledRadius(distance_sq, frame_w) ==
    distance_sq * 640 * 640 < (60 * frame_w) * (60 * frame_w)

\* C13 as stated: a detection strictly inside the radius of a track's stored
\* centroid, with no other detection of the frame closer to that track, is
\* given that track's id.
C13_IdentityStability ==
    [][UpdateStep =>
        \A t \in DOMAIN tracked_objects : \A k \in 1..Len(last'.detections) :
            LET c == tracked_objects[t].centroid
                d == calculate_distance_sq(last'.detections[k].centroid, c)
            IN  (/\ InsideScaledRadius(d, last'.frame_w)
                 /\ \A j \in 1..Len(last'.detections) :
                       calculate_distance_sq(last'.detections[j].centroid, c) >= d)
                => last'.detections[k].id = t]_vars

\* C13 amended: a detection is given the id of track t when t, with the
\* centroid stored at the moment the detection is processed, is strictly inside
\* the radius and every other stored track is farther, or as far with a higher id.
C13_NearestTrackKeepsId ==
    [][UpdateStep =>
        \A k \in 1..Len(last'.detections) :
            LET cs == CentroidsBefore(tracked_objects, last'.detections, k)
                e == last'.detections[k]
                D(u) == calculate_distance_sq(e.centroid, cs[u])
            IN  \A t \in DOMAIN cs :
                    (/\ InsideScaledRadius(D(t), last'.frame_w)
                     /\ \A u \in DOMAIN cs \ {t} : D(u) > D(t) \/ (D(u) = D(t) /\ u > t))
                    => (e.id = t /\ ~e.new)]_vars

\* a detection 12 px from where track 2 was stored kept id 2 although track 1
\* was inside the radius too, farther away
C13_Witness ==
    /\ AfterUpdate /\ Len(last.detections) = 1
    /\ last.detections[1].id = 2 /\ ~last.detections[1].new
    /\ last.detections[1].old_centroid = <<118, 124>>
    /\ last.detections[1].centroid = <<118, 112>>
    /\ 1 \in DOMAIN tracked_objects
    /\ InsideScaledRadius(calculate_distance_sq(last.detections[1].centroid,
                                                tracked_objects[1].centroid), last.frame_w)

\* C19: a detection matches only a track strictly inside 60 * frame_w / 640 of
\* it, and it creates a track exactly when no stored track is strictly inside.
C19_StrictScaledRadius ==
    [][UpdateStep =>
        \A k \in 1..Len(last'.detections) :
            LET cs == CentroidsBefore(tracked_objects, last'.detections, k)
                e == last'.detections[k]
                D(u) == calculate_distance_sq(e.centroid, cs[u])
            IN  /\ ~e.new => (e.id \in DOMAIN cs /\ InsideScaledRadius(D(e.id), last'.frame_w))
                /\ e.new <=> \A u \in DOMAIN cs : ~InsideScaledRadius(D(u), last'.frame_w)]_vars

\* at frame width 320 a detection exactly 30 px from the only track became track 2
C19_Witness ==
    /\ AfterUpdate /\ last.frame_w = 320 /\ Len(last.detections) = 1
    /\ last.detections[1].new /\ last.detections[1].id = 2
    /\ DOMAIN tracked_objects = {1, 2}
    /\ calculate_distance_sq(tracked_objects[1].centroid, tracked_objects[2].centroid) = 30 * 30

\* C20: the matched track has the lowest id among the stored tracks at its
\* distance from the detection.
C20_LowestIdWinsTie ==
    [][UpdateStep =>
        \A k \in 1..Len(last'.detections) :
            LET cs == CentroidsBefore(tracked_objects, last'.detections, k)
                e == last'.detections[k]
                D(u) == calculate_distance_sq(e.centroid, cs[u])
            IN  ~e.new => \A u \in DOMAIN cs : D(u) = D(e.id) => e.id <= u]_vars

\* a detection half way between tracks 1 and 2 was given id 1
C20_Witness ==
    /\ AfterUpdate /\ Len(last.detections) = 1
    /\ last.detections[1].id = 1 /\ ~last.detections[1].new
    /\ 2 \in DOMAIN tracked_objects
    /\ calculate_distance_sq(last.detections[1].centroid, tracked_objects[2].centroid)
         = calculate_distance_sq(last.detections[1].centroid, last.detections[1].old_centroid)
    /\ InsideScaledRadius(calculate_distance_sq(last.detections[1].centroid,
                                                tracked_objects[2].centroid), last.frame_w)

\* the same once track 1 has expired: between tracks 2 and 3 the detection was
\* given id 2
C20_WitnessAfterExpiry ==
    /\ AfterUpdate /\ Len(last.detections) = 1
    /\ last.detections[1].id = 2 /\ ~last.detections[1].new
    /\ DOMAIN tracked_objects = {2, 3}
    /\ calculate_distance_sq(last.detections[1].centroid, tracked_objects[3].centroid)
         = calculate_distance_sq(last.detections[1].centroid, last.detections[1].old_centroid)
    /\ InsideScaledRadius(calculate_distance_sq(last.detections[1].centroid,
                                                tracked_objects[3].centroid), last.frame_w)

\* detect_objects has run on the probe
Detected == probe.phase \in {"detected", "sent"}

\* the intersection over union of two boxes is at least 4/10
IoUAtLeastThreshold(a, b) ==
    InterArea(a, b) * 10 >= 4 * (Area(a) + Area(b) - InterArea(a, b))

\* C14: of two candidate rows whose boxes have an intersection over union of
\* 0.4 or more, the one with the lower confidence is not among the rows the
\* suppression step keeps.
C14_ConfidenceDominance ==
    Detected =>
        \A i, j \in 1..Len(probe.raw) :
            (/\ IoUAtLeastThreshold(probe.raw[i].box, probe.raw[j].box)
             /\ probe.raw[i].confidence < probe.raw[j].confidence)
            => \A k \in 1..Len(probe.kept) : probe.kept[k] # probe.raw[i]

\* C15: any two detections returned for one frame have an intersection over
\* union strictly below 0.4.
C15_NonOverlap ==
    Detected =>
        \A i, j \in 1..Len(probe.out) :
            i # j => ~IoUAtLeastThreshold(probe.out[i].bbox, probe.out[j].bbox)

\* C16: a candidate row whose confidence is at least the threshold passes the
\* filter step.
C16_FilterBoundary ==
    Detected =>
        \A i \in 1..Len(probe.raw) :
            probe.raw[i].confidence >= probe.min_conf
            => \E k \in 1..Len(probe.filtered) : probe.filtered[k] = probe.raw[i]

\* C17: the filter threshold is 0.30 when min_similarity is absent or at most
\* 30, and min_similarity / 100 above that.
C17_ConfidenceFloor ==
    Detected =>
        probe.min_conf =
            IF "min_similarity" \in DOMAIN probe.config /\ probe.config.min_similarity > 30 * 100
            THEN probe.config.min_similarity
            ELSE 3000

\* with min_similarity = 20 a candidate of confidence 0.25 was dropped and one
\* of 0.5 returned
C17_Witness ==
    /\ Detected
    /\ "min_similarity" \in DOMAIN probe.config /\ probe.config.min_similarity = 20 * 100
    /\ Len(probe.raw) = 2 /\ probe.raw[1].confidence = 2500 /\ probe.raw[2].confidence = 5000
    /\ Len(probe.out) = 1 /\ probe.out[1].confidence = 5000

\* s is in descending order of confidence
ConfidenceDescending(s) == \A i, j \in 1..Len(s) : i < j => s[i].confidence >= s[j].confidence

\* C18: detect_objects returns its detections by confidence descending, and the
\* list update returns, which is the one sent, has one detection per detection
\* of detect_objects, in the same order.
C18_Ordering ==
    /\ Detected => ConfidenceDescending(probe.out)
    /\ probe.phase = "sent" =>
          /\ last.kind = "detections"
          /\ Len(last.detections) = Len(probe.out)
          /\ \A k \in 1..Len(probe.out) :
                /\ last.detections[k].bbox = probe.out[k].bbox
                /\ last.detections[k].confidence = probe.out[k].confidence
                /\ last.detections[k].label = probe.out[k].label
          /\ ConfidenceDescending(last.detections)

\* three candidates arrived in ascending order of confidence and all three
\* were sent, the most confident first
C18_Witness ==
    /\ probe.phase = "sent" /\ Len(probe.raw) = 3 /\ Len(last.detections) = 3
    /\ probe.raw[1].confidence < probe.raw[2].confidence
    /\ probe.raw[2].confidence < probe.raw[3].confidence
    /\ last.detections[1].confidence > last.detections[2].confidence
    /\ last.detections[2].confidence > last.detections[3].confidence

\* C21: an update call leaves a track it neither matched nor removed as it
\* was, and a track it matched has the centroid and label of the last detection
\* of the frame given its id, and the call's timestamp as last_seen_ms.
C21_FrameCondition ==
    [][UpdateStep =>
        /\ \A t \in DOMAIN tracked_objects :
              (t \notin last'.matched_ids /\ t \notin last'.ids_to_remove)
              => (t \in DOMAIN tracked_objects' /\ tracked_objects'[t] = tracked_objects[t])
        /\ \A t \in last'.matched_ids :
              /\ t \in DOMAIN tracked_objects'
              /\ tracked_objects'[t].centroid = LastEntryOf(last'.detections, t).centroid
              /\ tracked_objects'[t].last_label = LastEntryOf(last'.detections, t).label
              /\ tracked_objects'[t].last_seen_ms = last'.now]_vars

\* track 2 was matched by a detection 12 px from its stored centroid and took
\* the detection's centroid, while track 1, unmatched and seen earlier, stayed
C21_Witness ==
    /\ AfterUpdate /\ Len(last.detections) = 1
    /\ last.detections[1].id = 2 /\ ~last.detections[1].new
    /\ last.detections[1].old_centroid # last.detections[1].centroid
    /\ tracked_objects[2].centroid = last.detections[1].centroid
    /\ 1 \in DOMAIN tracked_objects /\ 1 \notin last.matched_ids
    /\ tracked_objects[1].last_seen_ms < last.now
    /\ tracked_objects[1].last_spoken_ms > 0

\* C22: every track has last_spoken_ms = 0 or last_spoken_ms <= last_seen_ms;
\* an update call leaves last_spoken_ms = 0 exactly on the tracks that had it 0
\* (or are new) and got no speaking detection in the call, and no other step
\* changes a track's last_spoken_ms: it is 0 exactly while the track has never
\* spoken.
C22_SpokenNeverAheadOfSeen ==
    [][/\ \A t \in DOMAIN tracked_objects' :
             \/ tracked_objects'[t].last_spoken_ms = 0
             \/ tracked_objects'[t].last_spoken_ms <= tracked_objects'[t].last_seen_ms
       /\ UpdateStep =>
             \A t \in DOMAIN tracked_objects' :
                 LET spoke == \E k \in 1..Len(last'.detections) :
                                  last'.detections[k].id = t /\ last'.detections[k].should_speak
                     before == IF t \in DOMAIN tracked_objects
                               THEN tracked_objects[t].last_spoken_ms ELSE 0
                 IN  tracked_objects'[t].last_spoken_ms = 0 <=> (before = 0 /\ ~spoke)
       /\ ~UpdateStep =>
             \A t \in DOMAIN tracked_objects' :
                 /\ t \in DOMAIN tracked_objects
                 /\ tracked_objects'[t].last_spoken_ms = tracked_objects[t].last_spoken_ms]_vars

\* a track that spoke at its creation was matched silently 1000 ms later (its
\* last_spoken_ms is behind its last_seen_ms), beside a track that never spoke
C22_Witness ==
    /\ AfterUpdate /\ Len(last.detections) = 1
    /\ ~last.detections[1].new /\ ~last.detections[1].should_speak
    /\ last.detections[1].last_spoken_ms > 0
    /\ tracked_objects[last.detections[1].id].last_spoken_ms
          < tracked_objects[last.detections[1].id].last_seen_ms
    /\ \E t \in DOMAIN tracked_objects : tracked_objects[t].last_spoken_ms = 0

\* C23: when the config of a frame has min_similarity, every detection of the
\* frame that update was given has similarity >= min_similarity, and every
\* track the frame creates speaks.
C23_SuppliedThresholdSpeaks ==
    (probe.phase = "sent" /\ "min_similarity" \in DOMAIN probe.config) =>
        \A k \in 1..Len(last.detections) :
            /\ last.detections[k].similarity * 10 >= probe.config.min_similarity
            /\ last.detections[k].new => last.detections[k].should_speak

\* the same for min_similarity a whole number of percent
C23_WholePercentSpeaks ==
    (/\ probe.phase = "sent" /\ "min_similarity" \in DOMAIN probe.config
     /\ probe.config.min_similarity % 100 = 0) =>
        \A k \in 1..Len(last.detections) :
            /\ last.detections[k].similarity * 10 >= probe.config.min_similarity
            /\ last.detections[k].new => last.detections[k].should_speak

====
